---- MODULE Spec2Model ----
(***************************************************************************)
(* Campus Scheduler: the localStorage application (APP, saveUserData,      *)
(* createEvent, approveEvent, ...) and its pages, the REST clients         *)
(* (ApprovalManager, NotificationManager, the admin panel, the dashboard   *)
(* and its calendar, OverlapDetector, the drag-and-drop handlers) together *)
(* with the approval and overlap service they call, and the time-interval  *)
(* primitives.                                                             *)
(*                                                                         *)
(* Event times are measured in hours.  Date.now() is an input of the       *)
(* handlers that read it: the wall clock, which two handlers may read as   *)
(* the same millisecond.                                                   *)
(***************************************************************************)
EXTENDS Integers, Sequences, FiniteSets, TLC

VARIABLES
  currentUser,   \* APP.currentUser: NoUser or [id, role]
  schedules,     \* APP.schedules
  events,        \* APP.events
  approvals,     \* APP.approvals
  localStorage,  \* the browser's localStorage: key -> JSON text or Absent
  section,       \* what the page of the localStorage app shows
  last,          \* the last handler that ran, with its inputs and outcome
  srvEvents,     \* the service's events (behind API_BASE)
  apiUser,       \* the user whose token the REST client sends
  ivA, ivB,      \* two time intervals
  ovl,           \* overlaps of ivA and ivB, once computed (done)
  location,      \* window.location.href of the REST pages
  requests,      \* the requests a page load has issued, in order
  notifView,     \* NotificationManager: unreadCount and the list shown
  notifRequests, \* the requests of NotificationManager, in the order issued
  srvUnread,     \* the service's unread notifications of the user
  selectedDate,  \* the dashboard's selectedDate (a day)
  dayEventsList, \* the children of #day-events-list
  calls          \* the calls of getEventsForDate, in the order made

localVars == <<currentUser, schedules, events, approvals, localStorage,
               section>>
apiVars   == <<srvEvents, apiUser>>
pureVars  == <<ivA, ivB, ovl>>
pageVars  == <<location, requests, notifView, notifRequests, srvUnread,
               selectedDate, dayEventsList, calls>>
vars      == <<currentUser, schedules, events, approvals, localStorage,
               section, last, srvEvents, apiUser, ivA, ivB, ovl,
               location, requests, notifView, notifRequests, srvUnread,
               selectedDate, dayEventsList, calls>>

(***************************************************************************)
(* Bounds                                                                  *)
(***************************************************************************)
MaxEvents    == 3   \* no createEvent once APP.events holds this many
MaxSchedules == 3   \* no createSchedule once APP.schedules holds this many
MaxSrvEvents == 1   \* the service holds at most this many events
MaxHistory   == 2   \* no transition once an event's history is this long
MaxTime      == 4   \* the endpoints of ivA and ivB range over 0..MaxTime
MaxScope     == 2   \* the service holds at most this many events when the
                    \* detector is called

(***************************************************************************)
(* Program constants                                                       *)
(***************************************************************************)
ClockStart   == 3   \* Date.now() is larger than the sample ids 1 and 2
SampleStart1 == 24  \* Date.now() + 86400000 ms
SampleEnd1   == 25  \* Date.now() + 90000000 ms
SampleStart2 == 48  \* Date.now() + 172800000 ms
SampleEnd2   == 49  \* Date.now() + 176400000 ms

Roles    == {"admin", "teacher", "student"}
Statuses == {"draft", "pending", "approved", "declined", "changes_requested"}
NoUser   == [role |-> "none"]
FormStarts == {SampleStart1}
FormEnds == {SampleStart1, SampleEnd1}
FormSchedules == {1, 2}   \* the options picked in the event form
Clock    == {ClockStart, ClockStart + 1}
Absent   == <<"absent">>
NoApiUser == [id |-> 0, role |-> "none"]
NotComputed == [done |-> FALSE, ab |-> FALSE, ba |-> FALSE, aa |-> FALSE]

\* last while no handler of interest has run.  op: the handler; id: the
\* approval it was called with; reason: the reason it was given ("" for
\* none); sent: whether it issued a request; result: how the operation ended;
\* prev: the status (for logout, the role) it found; ret: the value it
\* returned.
Idle == [op |-> "none", id |-> 0, reason |-> "none", sent |-> FALSE,
         result |-> "none", prev |-> "none", ret |-> "none"]

\* last after a call of the OverlapDetector: its arguments and what it
\* returned.
Called(op, args, result, ret) ==
  [Idle EXCEPT !.op = op, !.id = args, !.sent = TRUE, !.result = result,
               !.ret = ret]

\* The REST pages before any of them is loaded.
NoNotifications == [unreadCount |-> 0, list |-> {}]

PagesIdle ==
  /\ location = "/login.html"
  /\ requests = <<>>
  /\ notifView = NoNotifications
  /\ notifRequests = <<>>
  /\ srvUnread = {}
  /\ selectedDate = 0
  /\ dayEventsList = <<>>
  /\ calls = <<>>

(***************************************************************************)
(* Time intervals [start, end)                                             *)
(***************************************************************************)
Interval(s, e) == [start |-> s, end |-> e]

overlaps_closed(a, b) == a.start <= b.end /\ b.start <= a.end

\* overlaps(a, b): half-open, touching endpoints do not overlap.
\* A variant that asks whether b starts inside a.
overlaps_startsInside(a, b) == a.start <= b.start /\ b.start < a.end

overlaps(a, b) == a.start < b.end /\ b.start < a.end

(***************************************************************************)
(* JSON text of a value, and the value of a JSON text.                     *)
(***************************************************************************)
JSONstringify(v) == <<"json", v>>
JSONparse(s)     == s[2]

(***************************************************************************)
(* The localStorage application                                            *)
(***************************************************************************)
ClearedStorage ==
  [currentUser |-> Absent, schedules |-> Absent, events |-> Absent,
   approvals |-> Absent]

saveUserData_skipsEvents(u, ss, es, as) ==
  [currentUser |-> JSONstringify(u), schedules |-> JSONstringify(ss),
   events |-> Absent, approvals |-> JSONstringify(as)]

\* saveUserData(): the four setItem calls, on the APP given.
saveUserData(u, ss, es, as) ==
  [currentUser |-> JSONstringify(u), schedules |-> JSONstringify(ss),
   events |-> JSONstringify(es), approvals |-> JSONstringify(as)]

\* Whether the setItem calls of a handler succeed or one of them throws
\* QuotaExceededError.
Stores == {"ok", "throws"}

\* localStorage after the setItem calls of saveUserData(): the call that
\* throws is the first that stores a new value, the ones before it rewrote
\* what was stored, and the ones after it do not run.
setItems(store, saved) == IF store = "ok" THEN saved ELSE localStorage

\* last after a handler that ends with saveUserData().
Saved(op, store) ==
  [Idle EXCEPT !.op = op, !.reason = "",
               !.result = IF store = "ok" THEN "ok" ELSE "QuotaExceededError"]

\* The page after a handler that ends with showDashboard(), which a throw
\* of saveUserData() skips.
shown(store) == IF store = "ok" THEN "dashboard" ELSE section

\* getItem(key) || "[]"
getItemOrEmpty(key) ==
  IF localStorage[key] = Absent THEN <<>> ELSE JSONparse(localStorage[key])

SampleSchedules == << [id |-> 1], [id |-> 2] >>

SampleEvents ==
  << [id |-> 1, schedule_id |-> 1, start_time |-> SampleStart1,
      end_time |-> SampleEnd1, status |-> "approved"],
     [id |-> 2, schedule_id |-> 1, start_time |-> SampleStart2,
      end_time |-> SampleEnd2, status |-> "pending"] >>

\* Array.prototype.find: the index of the first event with this id, 0 if none.
findEvent(es, id) ==
  IF \E i \in 1..Len(es) : es[i].id = id
  THEN CHOOSE i \in 1..Len(es) :
         es[i].id = id /\ \A j \in 1..(i - 1) : es[j].id # id
  ELSE 0

\* quickLogin(email, role): saveUserData(), loadSampleData(), showDashboard().
quickLogin(role, store) ==
  /\ section = "login"
  /\ LET u == [role |-> role]
         load == store = "ok" /\ Len(schedules) = 0
         ss == IF load THEN SampleSchedules ELSE schedules
         es == IF load THEN SampleEvents ELSE events
     IN /\ currentUser' = u
        /\ schedules' = ss
        /\ events' = es
        /\ localStorage' = setItems(store, saveUserData(u, ss, es, approvals))
  /\ section' = shown(store)
  /\ last' = Saved("quickLogin", store)
  /\ UNCHANGED <<approvals, apiVars, pureVars, pageVars>>

\* logout(): the user is dropped, localStorage cleared, and initApp() finds
\* no stored user, so APP keeps its collections and the login page shows.
logout ==
  /\ currentUser # NoUser
  /\ currentUser' = NoUser
  /\ localStorage' = ClearedStorage
  /\ section' = "login"
  /\ last' = [Idle EXCEPT !.op = "logout", !.prev = currentUser.role]
  /\ UNCHANGED <<schedules, events, approvals, apiVars, pureVars, pageVars>>

\* A page load: APP starts as declared, then initApp() runs loadUserData().
initApp ==
  /\ IF localStorage.currentUser # Absent
       /\ JSONparse(localStorage.currentUser) # NoUser
     THEN /\ currentUser' = JSONparse(localStorage.currentUser)
          /\ schedules' = getItemOrEmpty("schedules")
          /\ events' = getItemOrEmpty("events")
          /\ approvals' = getItemOrEmpty("approvals")
          /\ section' = "dashboard"
     ELSE /\ currentUser' = NoUser
          /\ schedules' = <<>>
          /\ events' = <<>>
          /\ approvals' = <<>>
          /\ section' = "login"
  /\ last' = [Idle EXCEPT !.op = "initApp"]
  /\ UNCHANGED <<localStorage, apiVars, pureVars, pageVars>>

\* createSchedule(e)
createSchedule(t, store) ==
  /\ currentUser # NoUser
  /\ LET s == [id |-> t]
     IN /\ schedules' = Append(schedules, s)
        /\ localStorage' =
             setItems(store,
                      saveUserData(currentUser, schedules', events, approvals))
  /\ section' = shown(store)
  /\ last' = Saved("createSchedule", store)
  /\ UNCHANGED <<currentUser, events, approvals, apiVars, pureVars, pageVars>>

newEventStatus_teacherBypass(role) ==
  IF role \in {"admin", "teacher"} THEN "approved" ELSE "pending"

\* The status createEvent gives a new event.
newEventStatus(role) == IF role = "admin" THEN "approved" ELSE "pending"

\* createEvent(e): schedule_id is one of the offered options.
createEvent(t, schedule_id, start_time, end_time, store) ==
  /\ currentUser # NoUser
  /\ \E i \in 1..Len(schedules) : schedules[i].id = schedule_id
  /\ LET ev == [id |-> t, schedule_id |-> schedule_id,
                start_time |-> start_time, end_time |-> end_time,
                status |-> newEventStatus(currentUser.role)]
     IN /\ events' = Append(events, ev)
        /\ localStorage' =
             setItems(store,
                      saveUserData(currentUser, schedules, events', approvals))
  /\ section' = shown(store)
  /\ last' = Saved("createEvent", store)
  /\ UNCHANGED <<currentUser, schedules, approvals, apiVars, pureVars, pageVars>>

\* The body shared by approveEvent(id) and declineEvent(id); neither takes
\* a reason.
setStatus(op, id, status, store) ==
  /\ currentUser # NoUser
  /\ findEvent(events, id) # 0
  /\ LET i == findEvent(events, id)
     IN /\ events' = [events EXCEPT ![i].status = status]
        /\ localStorage' =
             setItems(store,
                      saveUserData(currentUser, schedules, events', approvals))
  /\ section' = shown(store)
  /\ last' = Saved(op, store)
  /\ UNCHANGED <<currentUser, schedules, approvals, apiVars, pureVars, pageVars>>

approveEvent(id, store) == setStatus("approveEvent", id, "approved", store)

declineEvent(id, store) == setStatus("declineEvent", id, "declined", store)

EventIds == {events[i].id : i \in 1..Len(events)}

LocalInit ==
  /\ currentUser = NoUser
  /\ schedules = <<>>
  /\ events = <<>>
  /\ approvals = <<>>
  /\ localStorage = ClearedStorage
  /\ section = "login"
  /\ last = Idle
  /\ srvEvents = <<>>
  /\ apiUser = NoApiUser
  /\ ivA = Interval(0, 1) /\ ivB = Interval(0, 1) /\ ovl = NotComputed
  /\ PagesIdle

\* The handlers, each called with storage that has room.
LoginStep == \E role \in Roles : quickLogin(role, "ok")
CreateScheduleStep ==
  Len(schedules) < MaxSchedules /\ \E t \in Clock : createSchedule(t, "ok")
CreateEventStep ==
  /\ Len(events) < MaxEvents
  /\ \E sid \in FormSchedules, t \in Clock, s \in FormStarts, e \in FormEnds :
       createEvent(t, sid, s, e, "ok")
ApproveStep == \E id \in EventIds : approveEvent(id, "ok")
DeclineStep == \E id \in EventIds : declineEvent(id, "ok")

LocalNext ==
  \/ LoginStep
  \/ logout
  \/ initApp
  \/ CreateScheduleStep
  \/ CreateEventStep
  \/ ApproveStep
  \/ DeclineStep

SpecLocal == LocalInit /\ [][LocalNext]_vars

(***************************************************************************)
(* The pages of the localStorage application: what a user can click.       *)
(* showLoginPage() draws the login page; showDashboard() draws the sidebar *)
(* and the five sections, of which the dashboard is shown; switchSection() *)
(* shows another; viewSchedule() replaces them by the detail of a          *)
(* schedule.                                                               *)
(***************************************************************************)
Sections == {"dashboard", "schedules", "events", "create", "admin"}

\* The menu items showDashboard() draws in the sidebar for a role.
MenuItems(role) ==
  {"dashboard", "schedules", "events"}
    \cup (IF role # "student" THEN {"create"} ELSE {})
    \cup (IF role = "admin" THEN {"admin"} ELSE {})

\* switchSection(section, btn)
switchSection(target) ==
  /\ section \in Sections
  /\ section' = target
  /\ last' = [Idle EXCEPT !.op = "switchSection"]
  /\ UNCHANGED <<currentUser, schedules, events, approvals, localStorage,
                 apiVars, pureVars, pageVars>>

\* A menu item of the sidebar.
ClickMenu == \E target \in MenuItems(currentUser.role) : switchSection(target)

\* The "+ New Schedule" button of the schedules section.
ClickNewSchedule == section = "schedules" /\ switchSection("create")

\* viewSchedule(id), from the View button of a schedule's card.
viewSchedule ==
  /\ section = "schedules"
  /\ Len(schedules) > 0
  /\ section' = "detail"
  /\ last' = [Idle EXCEPT !.op = "viewSchedule"]
  /\ UNCHANGED <<currentUser, schedules, events, approvals, localStorage,
                 apiVars, pureVars, pageVars>>

\* showDashboard(), from the Back button of the detail.
ClickBack ==
  /\ section = "detail"
  /\ section' = "dashboard"
  /\ last' = [Idle EXCEPT !.op = "showDashboard"]
  /\ UNCHANGED <<currentUser, schedules, events, approvals, localStorage,
                 apiVars, pureVars, pageVars>>

\* The Logout item of the sidebar.
ClickLogout == section # "login" /\ logout

\* The quick-login buttons of the login page.
ClickLogin == \E role \in Roles, store \in Stores : quickLogin(role, store)

\* The two forms of the create section.
SubmitScheduleForm ==
  /\ section = "create"
  /\ Len(schedules) < MaxSchedules
  /\ \E t \in Clock, store \in Stores : createSchedule(t, store)

\* The event form is submitted with an end after the start, and until APP
\* holds two events more than the samples.
SubmitEventForm ==
  /\ section = "create"
  /\ Len(events) < MaxEvents + 1
  /\ \E sid \in FormSchedules, t \in Clock, store \in Stores :
       createEvent(t, sid, SampleStart1, SampleEnd1, store)

\* The events the admin section draws with an Approve and a Decline button.
PendingIds ==
  {events[i].id : i \in {j \in 1..Len(events) : events[j].status = "pending"}}

ClickApprove ==
  section = "admin" /\ \E id \in PendingIds, store \in Stores : approveEvent(id, store)

ClickDecline ==
  section = "admin" /\ \E id \in PendingIds, store \in Stores : declineEvent(id, store)

PagesNext ==
  \/ ClickLogin
  \/ ClickLogout
  \/ initApp
  \/ ClickMenu
  \/ ClickNewSchedule
  \/ viewSchedule
  \/ ClickBack
  \/ SubmitScheduleForm
  \/ SubmitEventForm
  \/ ClickApprove
  \/ ClickDecline

SpecPages == LocalInit /\ [][PagesNext]_vars

(***************************************************************************)
(* Properties of the localStorage application                              *)
(***************************************************************************)
LocalTransitionOps == {"approveEvent", "declineEvent"}

EventInterval(e) == Interval(e.start_time, e.end_time)

\* The approval records of APP.approvals that belong to an event.
RecordsOf(id) == SelectSeq(approvals, LAMBDA r : r.eventId = id)

\* C1: approve and decline change the status of a pending event only: an
\* approved event is never turned into declined, a declined event never
\* into approved.
C1_OnlyPendingIsDecided ==
  [][last'.op \in LocalTransitionOps =>
       \A i \in 1..Len(events) :
         events'[i].status # events[i].status => events[i].status = "pending"]_vars

\* C2: an approve or decline by a user who is not an admin changes no
\* event's status.
C2_NonAdminChangesNothing ==
  [][(last'.op \in LocalTransitionOps /\ currentUser.role # "admin") =>
       \A i \in 1..Len(events) : events'[i].status = events[i].status]_vars

\* C3: the event createEvent has just added is approved if its creator is
\* an admin and pending otherwise (the form has no requires-approval input,
\* so every event of a non-admin goes to review).
C3_InitialStatus ==
  last.op = "createEvent" =>
    /\ Len(events) > 0
    /\ events[Len(events)].status =
         (IF currentUser.role = "admin" THEN "approved" ELSE "pending")

C3_Witness ==
  /\ last.op = "createEvent"
  /\ currentUser.role = "teacher"
  /\ events[Len(events)].status = "pending"

\* C4: a decline given without a reason fails with MissingReason and issues
\* no request.
C4_DeclineNeedsReason ==
  (last.op \in {"declineEvent", "requestChanges"} /\ last.reason = "") =>
    (last.result = "MissingReason" /\ ~last.sent)

\* C6: the status of an event equals the status of its latest approval
\* record; an event without a record has a status that creation assigns.
C6_StatusEqualsLatestRecord ==
  \A i \in 1..Len(events) :
    LET recs == RecordsOf(events[i].id)
    IN IF recs = <<>>
       THEN events[i].status \in {"approved", "pending"}
       ELSE recs[Len(recs)].status = events[i].status

\* C7: a successful approve or decline appends exactly one approval record
\* and leaves the earlier records as they were.
C7_TransitionAppendsOneRecord ==
  [][(last'.op \in LocalTransitionOps /\ last'.result = "ok") =>
       /\ Len(approvals') = Len(approvals) + 1
       /\ SubSeq(approvals', 1, Len(approvals)) = approvals]_vars

\* C9: no two approved events of the same schedule have overlapping
\* intervals.
C9_NoApprovedOverlap ==
  \A i, j \in 1..Len(events) :
    (/\ i < j
     /\ events[i].status = "approved" /\ events[j].status = "approved"
     /\ events[i].schedule_id = events[j].schedule_id)
      => ~overlaps(EventInterval(events[i]), EventInterval(events[j]))

\* C19: no event is created whose end time is not strictly after its start
\* time.
C19_NoInvalidInterval ==
  \A i \in 1..Len(events) : events[i].start_time < events[i].end_time

\* C22: an approve or decline that changes an event's status also stores
\* the changed events: the status is never changed in APP while
\* localStorage keeps the events as they were.
C22_TransitionIsAtomic ==
  [][(last'.op \in LocalTransitionOps /\ events' # events)
       => localStorage'.events = JSONstringify(events')]_vars

\* C24: after a logout and a login with another role, APP holds the two
\* sample schedules, the two sample events and no approval: nothing that
\* was created before the logout.
C24_LogoutClearsCollections ==
  [][(last.op = "logout" /\ last'.op = "quickLogin" /\ last'.result = "ok"
      /\ currentUser'.role # last.prev)
       => /\ schedules' = SampleSchedules
          /\ events' = SampleEvents
          /\ approvals' = <<>>]_vars

C26_UniqueEventIds ==
  \A i, j \in 1..Len(events) : events[i].id = events[j].id => i = j

\* The operations of a logged-in user that end with saveUserData().
SavingOps ==
  {"quickLogin", "createSchedule", "createEvent", "approveEvent",
   "declineEvent"}

\* C27: after a completed login, createSchedule, createEvent, approveEvent
\* or declineEvent, localStorage holds the user, the schedules, the events
\* and the approvals of APP, and a page load that follows leaves APP with
\* exactly these.
C27_PersistedEqualsMemory ==
  /\ [](( last.op \in SavingOps /\ last.result = "ok")
          => /\ localStorage.currentUser = JSONstringify(currentUser)
             /\ localStorage.schedules = JSONstringify(schedules)
             /\ localStorage.events = JSONstringify(events)
             /\ localStorage.approvals = JSONstringify(approvals))
  /\ [][(last.op \in SavingOps /\ last.result = "ok" /\ last'.op = "initApp")
         => /\ currentUser' = currentUser /\ currentUser' # NoUser
            /\ schedules' = schedules
            /\ events' = events
            /\ approvals' = approvals]_vars

\* A page load that restored a user, a created schedule and a created
\* event that was then declined.
C27_Witness ==
  /\ last.op = "initApp"
  /\ currentUser \in {[role |-> r] : r \in Roles}
  /\ Len(schedules) = 3
  /\ Len(events) = 3 /\ events[3].status = "declined"
  /\ localStorage.events = JSONstringify(events)

(***************************************************************************)
(* The approval service behind API_BASE (sections 4.2 and 4.4 of the       *)
(* specification), as the REST clients see it.                             *)
(***************************************************************************)
ApiUsers ==
  { [id |-> 1, role |-> "admin"], [id |-> 2, role |-> "teacher"],
    [id |-> 3, role |-> "student"] }

Reasons == {"", "room unavailable"}
Net == {"up", "down"}          \* whether fetch resolves or throws
FormSlots == {0, 1}            \* the times the REST create form offers

\* The index in srvEvents of the event with this id, 0 if none.
srvFind(id) ==
  IF \E i \in 1..Len(srvEvents) : srvEvents[i].id = id
  THEN CHOOSE i \in 1..Len(srvEvents) : srvEvents[i].id = id
  ELSE 0

SrvIds == {srvEvents[i].id : i \in 1..Len(srvEvents)}

\* checkEventOverlap(scopeEvents, candidate, excludeEventId): the first
\* event of the scope, other than the excluded one and pending or
\* approved, whose interval overlaps the candidate.
Blocking(scope, cand, exclude) ==
  SelectSeq(scope, LAMBDA e :
    /\ e.id # exclude
    /\ e.status \in {"pending", "approved"}
    /\ overlaps(Interval(e.start_time, e.end_time), cand))

\* A checker that treats an empty scope as a conflict.
checkEventOverlap_emptyConflicts(scope, cand, exclude) ==
  LET hits == Blocking(scope, cand, exclude)
  IN IF scope = <<>>
     THEN [hasOverlap |-> TRUE, conflictingEvent |-> 0]
     ELSE IF hits = <<>>
     THEN [hasOverlap |-> FALSE, conflictingEvent |-> 0]
     ELSE [hasOverlap |-> TRUE, conflictingEvent |-> hits[1].id]

\* A checker that reports the last match.
checkEventOverlap_lastMatch(scope, cand, exclude) ==
  LET hits == Blocking(scope, cand, exclude)
  IN IF hits = <<>>
     THEN [hasOverlap |-> FALSE, conflictingEvent |-> 0]
     ELSE [hasOverlap |-> TRUE, conflictingEvent |-> hits[Len(hits)].id]

checkEventOverlap(scope, cand, exclude) ==
  LET hits == Blocking(scope, cand, exclude)
  IN IF hits = <<>>
     THEN [hasOverlap |-> FALSE, conflictingEvent |-> 0]
     ELSE [hasOverlap |-> TRUE, conflictingEvent |-> hits[1].id]

\* fetchScheduleEvents(scheduleId)
fetchScheduleEvents(scheduleId) ==
  SelectSeq(srvEvents, LAMBDA e : e.schedule_id = scheduleId)

\* The initial status of an event.
initialStatus(role, requiresApproval) ==
  IF role = "admin" \/ ~requiresApproval THEN "approved" ELSE "pending"

\* The transition table of section 4.4: <<from, action, to>>.
TransitionTable ==
  { <<"pending", "approve", "approved">>,
    <<"pending", "decline", "declined">>,
    <<"pending", "request-changes", "changes_requested">>,
    <<"changes_requested", "resubmit", "pending">>,
    <<"declined", "resubmit", "pending">> }

actorAllowed(ev, action, actor) ==
  IF action = "resubmit" THEN actor.id = ev.organizer_id
  ELSE actor.role = "admin"

\* transitionApproval(eventId, action, actorRole, reason): how it ends.
transitionApproval(ev, action, actor, reason) ==
  IF ~(\E row \in TransitionTable : row[1] = ev.status /\ row[2] = action)
       \/ ~actorAllowed(ev, action, actor)
  THEN "InvalidTransition"
  ELSE IF action \in {"decline", "request-changes"} /\ reason = ""
  THEN "MissingReason"
  ELSE "ok"

targetStatus(from, action) ==
  (CHOOSE row \in TransitionTable : row[1] = from /\ row[2] = action)[3]

\* persistApprovalTransition: the status change and the history entry.
persistApprovalTransition(i, action, actor, reason) ==
  LET ev == srvEvents[i]
      to == targetStatus(ev.status, action)
  IN [srvEvents EXCEPT
        ![i].status = to,
        ![i].history = Append(ev.history,
                         [to |-> to, actor |-> actor.id, reason |-> reason])]

(***************************************************************************)
(* The REST clients: dashboard, ApprovalManager, admin panel               *)
(***************************************************************************)
\* A page load with the token and user of localStorage.
loadPage(u) ==
  /\ apiUser' = u
  /\ last' = [Idle EXCEPT !.op = "loadPage"]
  /\ UNCHANGED <<srvEvents, localVars, pureVars, pageVars>>

\* createEvent(e) of the dashboard: POST /events; 409 on an overlap.
Dashboard_createEvent(schedule_id, start_time, end_time, facility, requires_approval, net) ==
  /\ apiUser \in ApiUsers
  /\ LET out ==
           IF net = "down" THEN "CollaboratorUnavailable"
           ELSE IF start_time >= end_time THEN "InvalidInterval"
           ELSE IF checkEventOverlap(fetchScheduleEvents(schedule_id),
                     Interval(start_time, end_time), 0).hasOverlap
           THEN "Conflict"
           ELSE "ok"
         ev == [id |-> Len(srvEvents) + 1, schedule_id |-> schedule_id,
                start_time |-> start_time, end_time |-> end_time,
                facility |-> facility, organizer_id |-> apiUser.id,
                requires_approval |-> requires_approval,
                status |-> initialStatus(apiUser.role, requires_approval),
                history |-> <<>>]
     IN /\ out = "ok" => Len(srvEvents) < MaxSrvEvents
        /\ srvEvents' = IF out = "ok" THEN Append(srvEvents, ev) ELSE srvEvents
        /\ last' = [Idle EXCEPT !.op = "Dashboard_createEvent", !.sent = TRUE,
                                !.result = out]
  /\ UNCHANGED <<apiUser, localVars, pureVars, pageVars>>

\* The fetch of an approval action and what the caller gets back:
\* retOk when response.ok, retNotOk when not, retThrow when fetch throws.
approvalRequest(op, action, approvalId, reason, net, retOk, retNotOk, retThrow) ==
  /\ apiUser \in ApiUsers
  /\ srvFind(approvalId) # 0
  /\ Len(srvEvents[srvFind(approvalId)].history) < MaxHistory
  /\ LET i == srvFind(approvalId)
         out == IF net = "down" THEN "CollaboratorUnavailable"
                ELSE transitionApproval(srvEvents[i], action, apiUser, reason)
     IN /\ srvEvents' =
             IF out = "ok"
             THEN persistApprovalTransition(i, action, apiUser, reason)
             ELSE srvEvents
        /\ last' = [op |-> op, id |-> approvalId, reason |-> reason,
                    sent |-> TRUE, result |-> out,
                    prev |-> srvEvents[i].status,
                    ret |-> IF out = "ok" THEN retOk
                            ELSE IF net = "down" THEN retThrow ELSE retNotOk]
  /\ UNCHANGED <<apiUser, localVars, pureVars, pageVars>>

\* A handler that returns before any fetch.
noRequest(op, approvalId, reason, result, ret) ==
  /\ apiUser \in ApiUsers
  /\ srvFind(approvalId) # 0
  /\ last' = [op |-> op, id |-> approvalId, reason |-> reason, sent |-> FALSE,
              result |-> result, prev |-> srvEvents[srvFind(approvalId)].status,
              ret |-> ret]
  /\ UNCHANGED <<srvEvents, apiUser, localVars, pureVars, pageVars>>

\* ApprovalManager.approveEvent(approvalId, reason = "")
ApprovalManager_approveEvent(approvalId, reason, net) ==
  approvalRequest("ApprovalManager.approveEvent", "approve", approvalId,
                  reason, net, "true", "false", "false")

\* ApprovalManager.declineEvent(approvalId, reason)
ApprovalManager_declineEvent(approvalId, reason, net) ==
  IF reason = ""
  THEN noRequest("ApprovalManager.declineEvent", approvalId, reason,
                 "MissingReason", "false")
  ELSE approvalRequest("ApprovalManager.declineEvent", "decline", approvalId,
                       reason, net, "true", "false", "false")

\* ApprovalManager.requestChanges(approvalId, reason)
ApprovalManager_requestChanges(approvalId, reason, net) ==
  approvalRequest("ApprovalManager.requestChanges", "request-changes",
                  approvalId, reason, net, "true", "undefined", "false")

ApprovalManager_resubmitForApproval_approves(approvalId, net) ==
  approvalRequest("ApprovalManager.resubmitForApproval", "approve",
                  approvalId, "", net, "true", "undefined", "false")

\* ApprovalManager.resubmitForApproval(approvalId)
ApprovalManager_resubmitForApproval(approvalId, net) ==
  approvalRequest("ApprovalManager.resubmitForApproval", "resubmit",
                  approvalId, "", net, "true", "undefined", "false")

\* A request for approval: on an event that is already pending the service
\* answers with the current state and changes nothing; on any other it is
\* not a row of the table.
requestOutcome(ev) ==
  IF ev.status = "pending" THEN "ok" ELSE "InvalidTransition"

ApprovalManager_requestApproval_approves(eventId, reason, net) ==
  approvalRequest("ApprovalManager.requestApproval", "approve", eventId,
                  reason, net, "true", "false", "false")

\* ApprovalManager.requestApproval(eventId, reason = "")
ApprovalManager_requestApproval(eventId, reason, net) ==
  /\ apiUser \in ApiUsers
  /\ srvFind(eventId) # 0
  /\ last' = [op |-> "ApprovalManager.requestApproval", id |-> eventId,
              reason |-> reason, sent |-> TRUE,
              result |-> IF net = "down" THEN "CollaboratorUnavailable"
                         ELSE requestOutcome(srvEvents[srvFind(eventId)]),
              prev |-> srvEvents[srvFind(eventId)].status,
              ret |-> IF net = "up"
                         /\ requestOutcome(srvEvents[srvFind(eventId)]) = "ok"
                      THEN "true" ELSE "false"]
  /\ UNCHANGED <<srvEvents, apiUser, localVars, pureVars, pageVars>>

\* approveEvent(approvalId) of the admin panel
AdminPanel_approveEvent(approvalId, net) ==
  approvalRequest("AdminPanel.approveEvent", "approve", approvalId,
                  "Approved by admin", net, "undefined", "undefined",
                  "undefined")

\* declineEvent(approvalId) of the admin panel; reason is what prompt() gave.
AdminPanel_declineEvent(approvalId, reason, net) ==
  IF reason = ""
  THEN noRequest("AdminPanel.declineEvent", approvalId, reason, "none",
                 "undefined")
  ELSE approvalRequest("AdminPanel.declineEvent", "decline", approvalId,
                       reason, net, "undefined", "undefined", "undefined")

ApprovalInit ==
  /\ srvEvents = <<>>
  /\ apiUser = NoApiUser
  /\ last = Idle
  /\ currentUser = NoUser /\ schedules = <<>> /\ events = <<>>
  /\ approvals = <<>> /\ localStorage = ClearedStorage
  /\ section = "login"
  /\ ivA = Interval(0, 1) /\ ivB = Interval(0, 1) /\ ovl = NotComputed
  /\ PagesIdle

LoadPageStep == \E u \in ApiUsers : loadPage(u)
DashboardCreateEventStep ==
  \E s \in FormSlots, e \in FormSlots, r \in BOOLEAN, net \in Net :
    Dashboard_createEvent(1, s, e, 1, r, net)
ManagerApproveStep ==
  \E id \in SrvIds, net \in Net : ApprovalManager_approveEvent(id, "", net)
ManagerDeclineStep ==
  \E id \in SrvIds, r \in Reasons, net \in Net :
    ApprovalManager_declineEvent(id, r, net)
ManagerRequestChangesStep ==
  \E id \in SrvIds, r \in Reasons, net \in Net :
    ApprovalManager_requestChanges(id, r, net)
ManagerResubmitStep ==
  \E id \in SrvIds, net \in Net : ApprovalManager_resubmitForApproval(id, net)
ManagerRequestApprovalStep ==
  \E id \in SrvIds, net \in Net : ApprovalManager_requestApproval(id, "", net)
AdminApproveStep ==
  \E id \in SrvIds, net \in Net : AdminPanel_approveEvent(id, net)
AdminDeclineStep ==
  \E id \in SrvIds, r \in Reasons, net \in Net :
    AdminPanel_declineEvent(id, r, net)

ApprovalNext ==
  \/ LoadPageStep
  \/ DashboardCreateEventStep
  \/ ManagerApproveStep
  \/ ManagerDeclineStep
  \/ ManagerRequestChangesStep
  \/ ManagerResubmitStep
  \/ ManagerRequestApprovalStep
  \/ AdminApproveStep
  \/ AdminDeclineStep

SpecApproval == ApprovalInit /\ [][ApprovalNext]_vars

\* C5: a resubmit succeeds only on a declined or changes_requested event
\* and only for its organizer, and then the event is pending; any other
\* resubmit that reaches the service fails with InvalidTransition, and a
\* failed resubmit leaves the status as it was.
C5_ResubmitGuard ==
  last.op = "ApprovalManager.resubmitForApproval" =>
    LET ev == srvEvents[srvFind(last.id)]
        allowed == /\ last.prev \in {"declined", "changes_requested"}
                   /\ apiUser.id = ev.organizer_id
    IN /\ last.result = "ok" => (allowed /\ ev.status = "pending")
       /\ last.result # "ok" => ev.status = last.prev
       /\ ~allowed => last.result \in {"InvalidTransition",
                                       "CollaboratorUnavailable"}
       /\ (allowed /\ last.result # "CollaboratorUnavailable")
            => last.result = "ok"

\* A declined event that a user other than its organizer tried to resubmit.
C5_Witness ==
  /\ last.op = "ApprovalManager.resubmitForApproval"
  /\ last.prev = "declined"
  /\ apiUser.id # srvEvents[srvFind(last.id)].organizer_id
  /\ last.result = "InvalidTransition"
  /\ srvEvents[srvFind(last.id)].status = "declined"

\* C21: a request for approval of an event that is already pending changes
\* neither its status nor its history, and when the service answers it the
\* answer is a success.
C21_RerequestIsNoOp ==
  [][(last'.op = "ApprovalManager.requestApproval" /\ last'.prev = "pending")
       => /\ srvEvents' = srvEvents
          /\ last'.result \in {"ok", "CollaboratorUnavailable"}
          /\ last'.result = "ok" => last'.ret = "true"]_vars

\* A pending event whose approval was requested again, with success.
C21_Witness ==
  /\ last.op = "ApprovalManager.requestApproval"
  /\ last.prev = "pending" /\ last.result = "ok" /\ last.ret = "true"
  /\ srvEvents[srvFind(last.id)].status = "pending"

(***************************************************************************)
(* The scheduling service: facility availability and suggestions           *)
(* (sections 4.2 and 4.3 of the specification)                             *)
(***************************************************************************)
StepSize       == 1   \* the step of the forward search
DayEnd         == 6   \* the horizon: a suggested slot ends by DayEnd
MaxSuggestions == 4   \* the first N free slots are returned

\* eventsAt(building, room)
eventsAt(facility) == SelectSeq(srvEvents, LAMBDA e : e.facility = facility)

\* checkFacilityAvailability(facilityIndex, building, room, candidate)
checkFacilityAvailability(facility, cand) ==
  LET n == Len(Blocking(eventsAt(facility), cand, 0))
  IN [available |-> n = 0, conflictCount |-> n]

\* A forward search that does not consult the overlap checker.
RECURSIVE searchSlots_unchecked(_, _, _)
searchSlots_unchecked(scope, start, d) ==
  IF start + d > DayEnd THEN <<>>
  ELSE <<Interval(start, start + d)>>
         \o searchSlots_unchecked(scope, start + StepSize, d)

\* A forward search that runs two steps past the horizon.
RECURSIVE searchSlots_pastHorizon(_, _, _)
searchSlots_pastHorizon(scope, start, d) ==
  IF start + d > DayEnd + 2 THEN <<>>
  ELSE LET slot == Interval(start, start + d)
           rest == searchSlots_pastHorizon(scope, start + StepSize, d)
       IN IF checkEventOverlap(scope, slot, 0).hasOverlap
          THEN rest ELSE <<slot>> \o rest

\* The slots of the forward search, earliest first.
RECURSIVE searchSlots(_, _, _)
searchSlots(scope, start, d) ==
  IF start + d > DayEnd THEN <<>>
  ELSE LET slot == Interval(start, start + d)
           rest == searchSlots(scope, start + StepSize, d)
       IN IF checkEventOverlap(scope, slot, 0).hasOverlap
          THEN rest ELSE <<slot>> \o rest

\* A suggester that keeps the last N free slots.
suggestTimes_lastN(scope, cand, durationMinutes) ==
  LET d == IF durationMinutes = 0 THEN cand.end - cand.start
           ELSE durationMinutes
      all == searchSlots(scope, cand.start, d)
  IN SubSeq(all, IF Len(all) < MaxSuggestions THEN 1
                 ELSE Len(all) - MaxSuggestions + 1, Len(all))

\* suggestTimes(scopeEvents, candidate, durationMinutes?); 0 is no override.
suggestTimes(scope, cand, durationMinutes) ==
  LET d == IF durationMinutes = 0 THEN cand.end - cand.start
           ELSE durationMinutes
      all == searchSlots(scope, cand.start, d)
  IN SubSeq(all, 1, IF Len(all) < MaxSuggestions THEN Len(all)
                    ELSE MaxSuggestions)

(***************************************************************************)
(* OverlapDetector: the REST client of the scheduling service              *)
(***************************************************************************)
ScheduleIds == {1, 2}
Facilities  == {1, 2}
Candidates  == {Interval(0, 1), Interval(1, 2), Interval(0, 2), Interval(0, 5)}
DisplayCap  == 3        \* alternatives.slice(0, 3)
Excludes    == {0, 1}   \* excludeEventId: null, or the first event held

\* The JSON the service answers a check-overlap request with.
overlapResponse(scheduleId, cand, exclude) ==
  LET r == checkEventOverlap(fetchScheduleEvents(scheduleId), cand, exclude)
  IN [has_overlap |-> r.hasOverlap, conflicting_event |-> r.conflictingEvent]

facilityResponse(facility, cand) ==
  LET r == checkFacilityAvailability(facility, cand)
  IN [available |-> r.available, conflict_count |-> r.conflictCount]

suggestResponse(scheduleId, cand, durationMinutes) ==
  [alternatives |->
     suggestTimes(fetchScheduleEvents(scheduleId), cand, durationMinutes)]

\* OverlapDetector.checkEventOverlap(scheduleId, startTime, endTime,
\* excludeEventId = null)
\* A detector that does not send exclude_event_id.
checkEventOverlapReturn_dropsExclude(scheduleId, cand, exclude, net) ==
  IF net = "up" THEN overlapResponse(scheduleId, cand, 0)
  ELSE [has_overlap |-> FALSE, error |-> "error.message"]

\* What the call returns: the response's JSON, or the value of the catch.
checkEventOverlapReturn(scheduleId, cand, exclude, net) ==
  IF net = "up" THEN overlapResponse(scheduleId, cand, exclude)
  ELSE [has_overlap |-> FALSE, error |-> "error.message"]

OverlapDetector_checkEventOverlap(scheduleId, cand, exclude, net) ==
  /\ last' = Called("checkEventOverlap", <<scheduleId, cand, exclude>>,
                    IF net = "up" THEN "ok" ELSE "CollaboratorUnavailable",
                    checkEventOverlapReturn(scheduleId, cand, exclude, net))
  /\ UNCHANGED <<srvEvents, apiUser, localVars, pureVars, pageVars>>

\* OverlapDetector.checkFacilityAvailability(building, roomNumber,
\* startTime, endTime)
OverlapDetector_checkFacilityAvailability(facility, cand, net) ==
  /\ last' =
       IF net = "up"
       THEN Called("checkFacilityAvailability", <<facility, cand>>, "ok",
                   facilityResponse(facility, cand))
       ELSE Called("checkFacilityAvailability", <<facility, cand>>,
                   "CollaboratorUnavailable",
                   [available |-> TRUE, error |-> "error.message"])
  /\ UNCHANGED <<srvEvents, apiUser, localVars, pureVars, pageVars>>

\* OverlapDetector.getSuggestedTimes(scheduleId, startTime, endTime,
\* durationMinutes = null)
OverlapDetector_getSuggestedTimes(scheduleId, cand, net) ==
  /\ last' =
       IF net = "up"
       THEN Called("getSuggestedTimes", <<scheduleId, cand>>, "ok",
                   suggestResponse(scheduleId, cand, 0))
       ELSE Called("getSuggestedTimes", <<scheduleId, cand>>,
                   "CollaboratorUnavailable", [alternatives |-> <<>>])
  /\ UNCHANGED <<srvEvents, apiUser, localVars, pureVars, pageVars>>

\* OverlapDetector.displayOverlapWarning(conflictingEvent, alternatives),
\* called with the alternatives getSuggestedTimes has just returned: the
\* slots it lists.
OverlapDetector_displayOverlapWarning ==
  /\ last.op = "getSuggestedTimes"
  /\ LET alternatives == last.ret.alternatives
         n == IF Len(alternatives) < DisplayCap THEN Len(alternatives)
              ELSE DisplayCap
     IN last' = Called("displayOverlapWarning", last.id, last.result,
                       [shown |-> SubSeq(alternatives, 1, n)])
  /\ UNCHANGED <<srvEvents, apiUser, localVars, pureVars, pageVars>>

\* The events the service may hold when the detector is called.
ScopeStatuses == Statuses

\* Every event held is booked at the same time; the candidates of a call
\* lie before it, on it and across it.
ScopeSlot == Interval(1, 2)

ScopeEvent(i, shape) ==
  [id |-> i, schedule_id |-> shape.schedule_id,
   start_time |-> ScopeSlot.start, end_time |-> ScopeSlot.end,
   facility |-> shape.facility, organizer_id |-> 2,
   requires_approval |-> TRUE, status |-> shape.status, history |-> <<>>]

ScopeShapes ==
  [schedule_id : ScheduleIds, facility : Facilities, status : ScopeStatuses]

Scopes ==
  UNION { { [i \in 1..n |-> ScopeEvent(i, f[i])] : f \in [1..n -> ScopeShapes] }
          : n \in 0..MaxScope }

OverlapInit ==
  /\ srvEvents \in Scopes
  /\ apiUser = NoApiUser
  /\ last = Idle
  /\ currentUser = NoUser /\ schedules = <<>> /\ events = <<>>
  /\ approvals = <<>> /\ localStorage = ClearedStorage
  /\ section = "login"
  /\ ivA = Interval(0, 1) /\ ivB = Interval(0, 1) /\ ovl = NotComputed
  /\ PagesIdle

\* The detector keeps no state between calls: each behaviour is one call on
\* the events held, and the listing of what it returned.
CheckEventOverlapStep ==
  /\ last.op = Idle.op
  /\ \E sid \in ScheduleIds, c \in Candidates, x \in Excludes, net \in Net :
    OverlapDetector_checkEventOverlap(sid, c, x, net)
CheckFacilityStep ==
  /\ last.op = Idle.op
  /\ \E f \in Facilities, c \in Candidates, net \in Net :
    OverlapDetector_checkFacilityAvailability(f, c, net)
SuggestStep ==
  /\ last.op = Idle.op
  /\ \E sid \in ScheduleIds, c \in Candidates, net \in Net :
    OverlapDetector_getSuggestedTimes(sid, c, net)

OverlapNext ==
  \/ CheckEventOverlapStep
  \/ CheckFacilityStep
  \/ SuggestStep
  \/ OverlapDetector_displayOverlapWarning

SpecOverlap == OverlapInit /\ [][OverlapNext]_vars

\* What a call of the detector can return when its request succeeds, on the
\* events the service holds.
SuccessReturns(op) ==
  IF op = "checkEventOverlap"
  THEN {overlapResponse(sid, c, x) :
          sid \in ScheduleIds, c \in Candidates, x \in Excludes}
  ELSE IF op = "checkFacilityAvailability"
  THEN {facilityResponse(f, c) : f \in Facilities, c \in Candidates}
  ELSE {suggestResponse(sid, c, 0) : sid \in ScheduleIds, c \in Candidates}

DetectorOps ==
  {"checkEventOverlap", "checkFacilityAvailability", "getSuggestedTimes"}

\* C8: what the detector returns when its request fails is never a value
\* it can return when the request succeeds.
C8_FailureDistinguishable ==
  (last.op \in DetectorOps /\ last.result = "CollaboratorUnavailable")
    => last.ret \notin SuccessReturns(last.op)

\* The events of a schedule and of a facility, by their place in the
\* service's list, and whether an event occupies its interval against a
\* candidate.
InSchedule(scheduleId) ==
  {i \in 1..Len(srvEvents) : srvEvents[i].schedule_id = scheduleId}

AtFacility(facility) ==
  {i \in 1..Len(srvEvents) : srvEvents[i].facility = facility}

Occupies(i, cand) ==
  /\ srvEvents[i].status \in {"pending", "approved"}
  /\ srvEvents[i].start_time < cand.end
  /\ cand.start < srvEvents[i].end_time

Touches(i, cand) ==
  srvEvents[i].start_time < cand.end /\ cand.start < srvEvents[i].end_time

\* The events a checkEventOverlap call is to find.
Matches(scheduleId, cand, exclude) ==
  {i \in InSchedule(scheduleId) :
     srvEvents[i].id # exclude /\ Occupies(i, cand)}

SetMin(S) == CHOOSE x \in S : \A y \in S : x <= y

\* C13: checkEventOverlap on a schedule with no events returns has_overlap
\* false, and its request having succeeded, nothing else.
C13_EmptyScopeNoConflict ==
  (last.op = "checkEventOverlap" /\ InSchedule(last.id[1]) = {}) =>
    /\ ~last.ret.has_overlap
    /\ last.result = "ok" =>
         last.ret = [has_overlap |-> FALSE, conflicting_event |-> 0]

\* The schedule asked about is empty while the other holds an event on the
\* candidate.
C13_Witness ==
  /\ last.op = "checkEventOverlap" /\ last.result = "ok"
  /\ InSchedule(last.id[1]) = {}
  /\ \E i \in 1..Len(srvEvents) : Occupies(i, last.id[2])
  /\ ~last.ret.has_overlap

\* C14: checkEventOverlap reports no overlap when every event of the
\* schedule whose interval overlaps the candidate is the excluded event or
\* has a status other than pending and approved.
C14_IgnoresExcludedAndInactive ==
  (/\ last.op = "checkEventOverlap"
   /\ \A i \in InSchedule(last.id[1]) :
        Touches(i, last.id[2]) =>
          \/ srvEvents[i].id = last.id[3]
          \/ srvEvents[i].status \notin {"pending", "approved"})
    => ~last.ret.has_overlap

\* The excluded event is approved and on the candidate, and a second event
\* on the candidate is neither pending nor approved.
C14_Witness ==
  /\ last.op = "checkEventOverlap" /\ last.result = "ok"
  /\ \E i, j \in InSchedule(last.id[1]) :
       /\ srvEvents[i].id = last.id[3] /\ Occupies(i, last.id[2])
       /\ Touches(j, last.id[2])
       /\ srvEvents[j].status \in {"draft", "declined", "changes_requested"}
  /\ ~last.ret.has_overlap

\* C15: the engine's answer has has_overlap true iff some event of the
\* schedule, other than the excluded one and pending or approved, overlaps
\* the candidate, and then the conflicting event is the first of them in
\* the schedule's order.
C15_FirstMatchWins ==
  (last.op = "checkEventOverlap" /\ last.result = "ok") =>
    LET hits == Matches(last.id[1], last.id[2], last.id[3])
    IN /\ last.ret.has_overlap <=> hits # {}
       /\ hits # {} => last.ret.conflicting_event = srvEvents[SetMin(hits)].id
       /\ hits = {} => last.ret.conflicting_event = 0

\* Two events of the schedule overlap the candidate; the first is returned.
C15_Witness ==
  /\ last.op = "checkEventOverlap" /\ last.result = "ok"
  /\ Cardinality(Matches(last.id[1], last.id[2], last.id[3])) = 2
  /\ last.ret.conflicting_event = 1

\* C16: checkFacilityAvailability reports available iff no pending or
\* approved event at the facility, of any schedule, overlaps the candidate,
\* and its count is the number of such events.
C16_FacilityCount ==
  last.op = "checkFacilityAvailability" =>
    LET n == Cardinality({i \in AtFacility(last.id[1]) :
                            Occupies(i, last.id[2])})
    IN /\ last.ret.available <=> n = 0
       /\ last.result = "ok" => last.ret.conflict_count = n

\* The free slots of the forward search of a getSuggestedTimes call, by
\* their start.
FreeStarts(scheduleId, cand) ==
  LET d == cand.end - cand.start
  IN {t \in cand.start..(DayEnd - d) :
        /\ (t - cand.start) % StepSize = 0
        /\ \A i \in InSchedule(scheduleId) : ~Occupies(i, Interval(t, t + d))}

\* C17: the suggestions are the earliest free slots of the forward search,
\* earliest first, none skipped, at most MaxSuggestions of them; so the
\* result is fixed by the events and the horizon.
C17_EarliestFirstN ==
  (last.op = "getSuggestedTimes" /\ last.result = "ok") =>
    LET alts == last.ret.alternatives
        cand == last.id[2]
        free == FreeStarts(last.id[1], cand)
    IN /\ Len(alts) = IF Cardinality(free) < MaxSuggestions
                      THEN Cardinality(free) ELSE MaxSuggestions
       /\ \A i \in 1..Len(alts) :
            /\ alts[i].start \in free
            /\ alts[i].end - alts[i].start = cand.end - cand.start
            /\ i > 1 => alts[i - 1].start < alts[i].start
       /\ \A t \in free :
            (\A i \in 1..Len(alts) : alts[i].start # t) =>
              (\A i \in 1..Len(alts) : alts[i].start < t)

\* The requested slot itself is taken, so the first of the MaxSuggestions
\* suggestions is a later one.
C17_Witness ==
  /\ last.op = "getSuggestedTimes" /\ last.result = "ok"
  /\ Len(last.ret.alternatives) = MaxSuggestions
  /\ last.id[2].start \notin FreeStarts(last.id[1], last.id[2])
  /\ last.ret.alternatives[1].start > last.id[2].start

\* C18: every suggestion lies within the horizon, and a search that finds
\* no free slot within it returns the empty sequence, as a success.
C18_BoundedSearch ==
  last.op = "getSuggestedTimes" =>
    LET alts == last.ret.alternatives
        cand == last.id[2]
    IN /\ Len(alts) <= (DayEnd - cand.start) \div StepSize + 1
       /\ \A i \in 1..Len(alts) :
            alts[i].start >= cand.start /\ alts[i].end <= DayEnd
       /\ (last.result = "ok" /\ FreeStarts(last.id[1], cand) = {})
            => alts = <<>>

\* No slot of the candidate's length is free up to the horizon.
C18_Witness ==
  /\ last.op = "getSuggestedTimes" /\ last.result = "ok"
  /\ FreeStarts(last.id[1], last.id[2]) = {}
  /\ last.id[2].end <= DayEnd
  /\ last.ret.alternatives = <<>>

\* The slots the last call returned or listed.
SuggestedSlots ==
  IF last.op = "getSuggestedTimes" THEN last.ret.alternatives
  ELSE IF last.op = "displayOverlapWarning" THEN last.ret.shown
  ELSE <<>>

\* C12: no slot that getSuggestedTimes returns, or that the warning lists,
\* is one for which checkEventOverlap reports a conflict against the events
\* of the same schedule.
C12_SuggestionsConflictFree ==
  \A i \in 1..Len(SuggestedSlots) :
    ~checkEventOverlap(fetchScheduleEvents(last.id[1]), SuggestedSlots[i],
                       0).hasOverlap

\* The requested slot conflicts, and the warning lists alternatives.
C12_Witness ==
  /\ last.op = "displayOverlapWarning"
  /\ checkEventOverlap(fetchScheduleEvents(last.id[1]), last.id[2],
                       0).hasOverlap
  /\ Len(last.ret.shown) = DisplayCap

(***************************************************************************)
(* Drag and drop: moving an event to a date or to a timeblock              *)
(***************************************************************************)
\* Instants are milliseconds from local midnight of day 0.
MinutesPerHour == 60
MsPerSecond    == 1000
MsPerMinute    == MsPerSecond * 60
MsPerHour      == MinutesPerHour * MsPerMinute
DayMs          == 24 * MsPerHour

\* Date.prototype.toISOString and new Date(isoString): exact to the
\* millisecond.
toISOString(t) == <<"iso", t>>
DateOf(iso) == iso[2]

getHours(t)   == (t % DayMs) \div MsPerHour
getMinutes(t) == (t % MsPerHour) \div MsPerMinute

\* date.setHours(h, m): the day, the seconds and the milliseconds stay.
setHoursMinutes(t, h, m) ==
  (t - (t % DayMs)) + h * MsPerHour + m * MsPerMinute + (t % MsPerMinute)

\* date.setHours(h, m, 0): the day and the milliseconds stay.
setHoursMinutesSeconds(t, h, m) ==
  (t - (t % DayMs)) + h * MsPerHour + m * MsPerMinute + (t % MsPerSecond)

\* new Date(year, month, dayNum): local midnight of a calendar day.
DateOfDay(day) == day * DayMs

\* A duration that keeps whole minutes only.
durationMinutes_floor(eventData) ==
  [num |-> ((DateOf(eventData.end_time) - DateOf(eventData.start_time))
              \div MsPerMinute) * MsPerMinute,
   den |-> MsPerMinute]

\* (new Date(end_time) - new Date(start_time)) / (1000 * 60), a fraction of
\* minutes.
durationMinutes(eventData) ==
  [num |-> DateOf(eventData.end_time) - DateOf(eventData.start_time),
   den |-> MsPerMinute]

\* A fraction times a whole number, in lowest terms of the denominator.
RECURSIVE gcd(_, _)
gcd(a, b) == IF b = 0 THEN a ELSE gcd(b, a % b)

times(f, k) ==
  LET g == gcd(f.den, k)
  IN [num |-> f.num * (k \div g), den |-> f.den \div g]

\* new Date(newStartTime.getTime() + duration * 60 * 1000)
addMinutes(t, duration) ==
  LET ms == times(times(duration, 60), MsPerSecond)
  IN t + (ms.num \div ms.den)

\* The JSON an event element carries while it is dragged.
dragData(e) ==
  JSONstringify([id |-> e.id, schedule_id |-> e.schedule_id,
                 start_time |-> toISOString(e.start_time),
                 end_time |-> toISOString(e.end_time)])

\* persistEventInterval as PUT /events/{id}: the service keeps the new
\* interval if it is valid and free in the event's schedule.
putOutcome(id, body, net) ==
  LET iv == [start |-> DateOf(body.start_time), end |-> DateOf(body.end_time)]
      i == srvFind(id)
  IN IF net = "down" THEN "CollaboratorUnavailable"
     ELSE IF i = 0 THEN "NotFound"
     ELSE IF iv.start >= iv.end THEN "InvalidInterval"
     ELSE IF checkEventOverlap(fetchScheduleEvents(srvEvents[i].schedule_id),
                               iv, id).hasOverlap THEN "Conflict"
     ELSE "ok"

\* The PUT of a move: op is the handler, checked what it knows of the
\* overlap check it made.
putEvent(op, id, old, body, checked, net) ==
  LET out == putOutcome(id, body, net)
      i == srvFind(id)
  IN /\ srvEvents' =
          IF out = "ok"
          THEN [srvEvents EXCEPT ![i].start_time = DateOf(body.start_time),
                                 ![i].end_time = DateOf(body.end_time)]
          ELSE srvEvents
     /\ last' = [Idle EXCEPT !.op = op, !.id = id, !.sent = body,
                             !.prev = old, !.result = out, !.ret = checked]

\* The OverlapDetector the drop handler calls: the client of the service, or
\* the stand-in declared with the drag-and-drop classes.
Detectors == {"service", "mock"}

detectorResult(detector, scheduleId, cand, exclude, net) ==
  IF detector = "mock" THEN [has_overlap |-> FALSE]
  ELSE checkEventOverlapReturn(scheduleId, cand, exclude, net)

\* How the overlap check of a move ended: answered by the service, failed,
\* or never requested; with the value the handler got for it.
Checked(check, answer) == [check |-> check, answer |-> answer]

checkOutcome(detector, net) ==
  IF detector = "mock" THEN "none"
  ELSE IF net = "up" THEN "ok" ELSE "CollaboratorUnavailable"

NoCheck == Checked("none", [has_overlap |-> FALSE])

\* DragDropManager.handleEventDroppedOnDate(e, newDate)
DragDropManager_handleEventDroppedOnDate(eventData, newDate, detector, net, netPut) ==
  LET event == JSONparse(eventData)
      oldDate == DateOf(event.start_time)
      timeDiff == getHours(oldDate) * MinutesPerHour + getMinutes(oldDate)
      newStartTime == setHoursMinutes(newDate, timeDiff \div MinutesPerHour,
                                      timeDiff % MinutesPerHour)
      newEndTime == addMinutes(newStartTime, durationMinutes(event))
      body == [start_time |-> toISOString(newStartTime),
               end_time |-> toISOString(newEndTime)]
      old == [start_time |-> event.start_time, end_time |-> event.end_time]
      overlapResult ==
        detectorResult(detector, event.schedule_id,
                       Interval(newStartTime, newEndTime), event.id, net)
  IN /\ IF overlapResult.has_overlap
        THEN /\ last' = [Idle EXCEPT !.op = "handleEventDroppedOnDate",
                                     !.id = event.id, !.prev = old,
                                     !.result = "has_overlap",
                                     !.ret = Checked(checkOutcome(detector, net),
                                                     overlapResult)]
             /\ UNCHANGED srvEvents
        ELSE putEvent("handleEventDroppedOnDate", event.id, old, body,
                      Checked(checkOutcome(detector, net), overlapResult),
                      netPut)
     /\ UNCHANGED <<apiUser, localVars, pureVars, pageVars>>

\* TimeblockDragDrop.rescheduleEvent(eventDataStr, newTime), run at now.
TimeblockDragDrop_rescheduleEvent(eventDataStr, hours, minutes, now, netPut) ==
  LET eventData == JSONparse(eventDataStr)
      newStartTime == setHoursMinutesSeconds(now, hours, minutes)
      newEndTime == addMinutes(newStartTime, durationMinutes(eventData))
      body == [start_time |-> toISOString(newStartTime),
               end_time |-> toISOString(newEndTime)]
      old == [start_time |-> eventData.start_time,
              end_time |-> eventData.end_time]
  IN /\ putEvent("rescheduleEvent", eventData.id, old, body, NoCheck, netPut)
     /\ UNCHANGED <<apiUser, localVars, pureVars, pageVars>>

\* An instant by its local day and time of day.
At(day, h, m, sec, ms) ==
  day * DayMs + h * MsPerHour + m * MsPerMinute + sec * MsPerSecond + ms

Days       == {0, 1}                        \* the calendar days dropped on
Timeblocks == {<<10, 0>>, <<11, 30>>}       \* block.dataset.time
Nows       == {At(1, 9, 15, 20, 250)}       \* new Date() in rescheduleEvent

MovedEvent(id, start, length, status) ==
  [id |-> id, schedule_id |-> 1, start_time |-> start,
   end_time |-> start + length, facility |-> 1, organizer_id |-> 2,
   requires_approval |-> TRUE, status |-> status, history |-> <<>>]

\* An event of day 0, of an hour or of a minute and a half, and an event of
\* day 1 at the same time of day.
RescheduleInit ==
  /\ \E start \in {At(0, 10, 0, 0, 0), At(0, 10, 0, 30, 500)},
        length \in {MsPerHour, At(0, 0, 1, 30, 500)},
        status \in {"approved", "declined"} :
       srvEvents = << MovedEvent(1, start, length, "approved"),
                      MovedEvent(2, At(1, 10, 0, 0, 0), MsPerHour, status) >>
  /\ apiUser = NoApiUser
  /\ last = Idle
  /\ currentUser = NoUser /\ schedules = <<>> /\ events = <<>>
  /\ approvals = <<>> /\ localStorage = ClearedStorage
  /\ section = "login"
  /\ ivA = Interval(0, 1) /\ ivB = Interval(0, 1) /\ ovl = NotComputed
  /\ PagesIdle

DropOnDateStep ==
  \E i \in 1..Len(srvEvents), day \in Days, detector \in Detectors,
     net \in Net, netPut \in Net :
    DragDropManager_handleEventDroppedOnDate(
      dragData(srvEvents[i]), DateOfDay(day), detector, net, netPut)

DropOnTimeblockStep ==
  \E i \in 1..Len(srvEvents), slot \in Timeblocks, now \in Nows,
     netPut \in Net :
    TimeblockDragDrop_rescheduleEvent(
      dragData(srvEvents[i]), slot[1], slot[2], now, netPut)

RescheduleNext ==
  \/ DropOnDateStep
  \/ DropOnTimeblockStep

SpecReschedule == RescheduleInit /\ [][RescheduleNext]_vars

RescheduleOps == {"handleEventDroppedOnDate", "rescheduleEvent"}

\* C20: the interval a move sends has the length of the dragged event's
\* interval and ends after it starts, and it is the interval the event has
\* once the move is stored.
C20_MovePreservesDuration ==
  (last.op \in RescheduleOps /\ last.result # "has_overlap") =>
    LET newStart == DateOf(last.sent.start_time)
        newEnd   == DateOf(last.sent.end_time)
        oldStart == DateOf(last.prev.start_time)
        oldEnd   == DateOf(last.prev.end_time)
        e        == srvEvents[srvFind(last.id)]
    IN /\ newEnd - newStart = oldEnd - oldStart
       /\ newStart < newEnd
       /\ last.result = "ok" =>
            e.start_time = newStart /\ e.end_time = newEnd

\* An event of a minute and a half, starting on a half second, dropped on
\* another day and stored there.
C20_Witness ==
  /\ last.op = "handleEventDroppedOnDate" /\ last.result = "ok"
  /\ DateOf(last.prev.end_time) - DateOf(last.prev.start_time)
       = At(0, 0, 1, 30, 500)
  /\ DateOf(last.prev.start_time) % MsPerMinute # 0
  /\ DateOf(last.sent.start_time) - DateOf(last.prev.start_time) > MsPerHour

\* C23: a drop on a date sends the PUT of the new interval only when its
\* overlap check was answered by the service and the answer reported no
\* overlap; a check that failed or reported an overlap is followed by no
\* PUT.
C23_PutOnlyAfterCleanCheck ==
  (last.op = "handleEventDroppedOnDate" /\ last.result # "has_overlap")
    => (last.ret.check = "ok" /\ ~last.ret.answer.has_overlap)

(***************************************************************************)
(* Loading the admin panel and the dashboard.  Both scripts read the token *)
(* and the user from localStorage and run three calls on DOMContentLoaded; *)
(* an assignment to window.location.href starts a navigation and the       *)
(* handler runs on.                                                        *)
(***************************************************************************)
MaxRequests == 2   \* no page load once this many requests were issued

\* A request as the service receives it: its path and the user whose token
\* it carries (NoApiUser: "Bearer null").
Request(page, url) == [page |-> page, url |-> url, user |-> apiUser]

\* admin-panel.js: initializeAdmin(); setupEventListeners();
\* loadDashboardData()
AdminPanel_DOMContentLoaded ==
  /\ Len(requests) < MaxRequests
  /\ location' = IF apiUser.role # "admin" THEN "/login.html"
                 ELSE "/admin.html"
  /\ requests' = Append(requests, Request("admin", "/admin/statistics"))
  /\ UNCHANGED <<last, localVars, apiVars, pureVars, notifView,
                 notifRequests, srvUnread, selectedDate, dayEventsList, calls>>

\* The dashboard: initializeDashboard(); setupEventListeners();
\* loadDashboardData(), whose loadMySchedules() fetches the schedules.
Dashboard_DOMContentLoaded ==
  /\ Len(requests) < MaxRequests
  /\ location' = IF apiUser = NoApiUser THEN "/login.html"
                 ELSE "/dashboard.html"
  /\ requests' = Append(requests, Request("dashboard", "/schedules"))
  /\ UNCHANGED <<last, localVars, apiVars, pureVars, notifView,
                 notifRequests, srvUnread, selectedDate, dayEventsList, calls>>

\* The login page stores the token and the user; a logout removes them.
storeUser(u) ==
  /\ apiUser' = u
  /\ location' = "/login.html"
  /\ UNCHANGED <<last, localVars, srvEvents, pureVars, requests, notifView,
                 notifRequests, srvUnread, selectedDate, dayEventsList, calls>>

PageLoadInit ==
  /\ apiUser = NoApiUser
  /\ srvEvents = <<>>
  /\ last = Idle
  /\ currentUser = NoUser /\ schedules = <<>> /\ events = <<>>
  /\ approvals = <<>> /\ localStorage = ClearedStorage
  /\ section = "login"
  /\ ivA = Interval(0, 1) /\ ivB = Interval(0, 1) /\ ovl = NotComputed
  /\ PagesIdle

StoreUserStep == \E u \in ApiUsers \cup {NoApiUser} : storeUser(u)

PageLoadNext ==
  \/ AdminPanel_DOMContentLoaded
  \/ Dashboard_DOMContentLoaded
  \/ StoreUserStep

SpecPageLoad == PageLoadInit /\ [][PageLoadNext]_vars

\* C28: no request of the admin panel is issued for a user who is not an
\* admin, and no request of the dashboard without a token.
C28_NoRequestWithoutRight ==
  \A i \in 1..Len(requests) :
    /\ requests[i].page = "admin" => requests[i].user.role = "admin"
    /\ requests[i].page = "dashboard" => requests[i].user # NoApiUser

(***************************************************************************)
(* NotificationManager.  Each of its requests is sent, answered by the     *)
(* service at some later moment, and received by the page at some moment   *)
(* after that; requests that are under way overtake one another.           *)
(***************************************************************************)
MaxNotifRequests == 4   \* NotificationManager issues at most this many
NotifIds == {1, 2}      \* the notifications of the user

\* The response to GET /approvals/notifications: unread_count and the
\* notifications, of which the unread ones are kept.
notificationsResponse ==
  [unreadCount |-> Cardinality(srvUnread), list |-> srvUnread]

NotifRequest(kind, arg) ==
  [kind |-> kind, arg |-> arg, state |-> "sent", data |-> NoNotifications]

Posts == {"markAsRead", "markAllAsRead"}

\* The POSTs whose handler has not yet reached its loadNotifications().
PendingPosts ==
  Cardinality({i \in 1..Len(notifRequests) :
                 notifRequests[i].kind \in Posts
                 /\ notifRequests[i].state # "done"})

notifUnchanged ==
  UNCHANGED <<last, localVars, apiVars, pureVars, location, requests,
              selectedDate, dayEventsList, calls>>

\* loadNotifications(), up to its fetch: from init() and from the interval
\* of startPolling().
loadNotifications ==
  /\ Len(notifRequests) + PendingPosts < MaxNotifRequests
  /\ notifRequests' = Append(notifRequests, NotifRequest("load", 0))
  /\ UNCHANGED <<notifView, srvUnread>>
  /\ notifUnchanged

\* markAsRead(notifId), up to its fetch: from the button of an unread
\* notification of the list shown.
markAsRead(notifId) ==
  /\ notifId \in notifView.list
  /\ Len(notifRequests) + PendingPosts + 1 < MaxNotifRequests
  /\ notifRequests' = Append(notifRequests, NotifRequest("markAsRead", notifId))
  /\ UNCHANGED <<notifView, srvUnread>>
  /\ notifUnchanged

\* markAllAsRead(), up to its fetch.
markAllAsRead ==
  /\ Len(notifRequests) + PendingPosts + 1 < MaxNotifRequests
  /\ notifRequests' = Append(notifRequests, NotifRequest("markAllAsRead", 0))
  /\ UNCHANGED <<notifView, srvUnread>>
  /\ notifUnchanged

\* The service answers request i.
serveNotifRequest(i) ==
  /\ notifRequests[i].state = "sent"
  /\ notifRequests' =
       [notifRequests EXCEPT ![i].state = "answered",
                             ![i].data = IF notifRequests[i].kind = "load"
                                         THEN notificationsResponse
                                         ELSE NoNotifications]
  /\ srvUnread' =
       IF notifRequests[i].kind = "markAsRead"
       THEN srvUnread \ {notifRequests[i].arg}
       ELSE IF notifRequests[i].kind = "markAllAsRead" THEN {}
       ELSE srvUnread
  /\ UNCHANGED notifView
  /\ notifUnchanged

\* The page receives the response to request i and the handler that waits
\* for it runs on: loadNotifications() shows the data, markAsRead() and
\* markAllAsRead() call loadNotifications().
receiveNotifResponse(i) ==
  /\ notifRequests[i].state = "answered"
  /\ notifView' = IF notifRequests[i].kind = "load"
                  THEN notifRequests[i].data ELSE notifView
  /\ notifRequests' =
       LET done == [notifRequests EXCEPT ![i].state = "done"]
       IN IF notifRequests[i].kind \in Posts
          THEN Append(done, NotifRequest("load", 0))
          ELSE done
  /\ UNCHANGED srvUnread
  /\ notifUnchanged

NotificationsInit ==
  /\ srvUnread = NotifIds
  /\ notifView = NoNotifications
  /\ notifRequests = <<>>
  /\ location = "/dashboard.html" /\ requests = <<>>
  /\ selectedDate = 0 /\ dayEventsList = <<>> /\ calls = <<>>
  /\ apiUser = NoApiUser /\ srvEvents = <<>>
  /\ last = Idle
  /\ currentUser = NoUser /\ schedules = <<>> /\ events = <<>>
  /\ approvals = <<>> /\ localStorage = ClearedStorage
  /\ section = "login"
  /\ ivA = Interval(0, 1) /\ ivB = Interval(0, 1) /\ ovl = NotComputed

MarkAsReadStep == \E id \in NotifIds : markAsRead(id)
ServeNotifStep == \E i \in 1..Len(notifRequests) : serveNotifRequest(i)
ReceiveNotifStep == \E i \in 1..Len(notifRequests) : receiveNotifResponse(i)

NotificationsNext ==
  \/ loadNotifications
  \/ MarkAsReadStep
  \/ markAllAsRead
  \/ ServeNotifStep
  \/ ReceiveNotifStep

SpecNotifications == NotificationsInit /\ [][NotificationsNext]_vars

\* The loads among the requests, by their place in the order of issue.
Loads == {i \in 1..Len(notifRequests) : notifRequests[i].kind = "load"}

\* C29: once every request has been received, the unread count and the
\* list shown are those of the response to the load that was issued last.
C29_LatestLoadWins ==
  (Loads # {} /\ \A i \in 1..Len(notifRequests) : notifRequests[i].state = "done")
    => notifView = notifRequests[CHOOSE i \in Loads : \A j \in Loads : j <= i].data

(***************************************************************************)
(* The dashboard's calendar: selectDate(date) and getEventsForDate(date),  *)
(* which fetches the user's schedules one after the other and waits for    *)
(* each response; calls that are under way run side by side.               *)
(***************************************************************************)
MaxSelections == 2   \* selectDate is called at most this many times
CalendarDays  == {0, 1, 2}    \* the days of the calendar grid
UserSchedules == <<1, 2>>     \* userSchedules, by id

\* date.toDateString(): the local day of an instant.
toDateString(t) == t \div DayMs

\* An event element of #day-events-list, and the "No events for this date"
\* paragraph.
EventItem(e) == [id |-> e.id, day |-> toDateString(e.start_time)]
Placeholder  == [id |-> 0, day |-> 0 - 1]

\* scheduleData.events.filter(...) of one response, as list elements.
dayEvents(scheduleId, date) ==
  LET es == SelectSeq(fetchScheduleEvents(scheduleId),
                      LAMBDA e : toDateString(e.start_time) = date)
  IN [i \in 1..Len(es) |-> EventItem(es[i])]

calendarUnchanged ==
  UNCHANGED <<last, localVars, apiVars, pureVars, location, requests,
              notifView, notifRequests, srvUnread>>

\* selectDate(date), and getEventsForDate(date) up to its first fetch.
selectDate(date) ==
  /\ Len(calls) < MaxSelections
  /\ selectedDate' = date
  /\ dayEventsList' = <<>>
  /\ calls' = Append(calls, [date |-> date, next |-> 1])
  /\ calendarUnchanged

\* The fetch that call k of getEventsForDate waits for resolves or throws,
\* and the call runs on to its next fetch or to its end.
fetchSettled(k, net) ==
  /\ calls[k].next <= Len(UserSchedules)
  /\ LET found == IF net = "up"
                  THEN dayEvents(UserSchedules[calls[k].next], calls[k].date)
                  ELSE <<>>
         list == dayEventsList \o found
     IN dayEventsList' =
          IF calls[k].next = Len(UserSchedules) /\ list = <<>>
          THEN <<Placeholder>> ELSE list
  /\ calls' = [calls EXCEPT ![k].next = @ + 1]
  /\ UNCHANGED selectedDate
  /\ calendarUnchanged

\* Schedule 1 holds an event on day 0 and one on day 1, schedule 2 one on
\* day 1; no event is on day 2.
CalendarInit ==
  /\ srvEvents =
       << MovedEvent(1, At(0, 10, 0, 0, 0), MsPerHour, "approved"),
          [MovedEvent(2, At(1, 10, 0, 0, 0), MsPerHour, "approved")
             EXCEPT !.schedule_id = 2],
          MovedEvent(3, At(1, 14, 0, 0, 0), MsPerHour, "pending") >>
  /\ selectedDate = 0 /\ dayEventsList = <<>> /\ calls = <<>>
  /\ location = "/dashboard.html" /\ requests = <<>>
  /\ notifView = NoNotifications /\ notifRequests = <<>> /\ srvUnread = {}
  /\ apiUser = NoApiUser
  /\ last = Idle
  /\ currentUser = NoUser /\ schedules = <<>> /\ events = <<>>
  /\ approvals = <<>> /\ localStorage = ClearedStorage
  /\ section = "login"
  /\ ivA = Interval(0, 1) /\ ivB = Interval(0, 1) /\ ovl = NotComputed

SelectDateStep == \E date \in CalendarDays : selectDate(date)
FetchSettledStep ==
  \E k \in 1..Len(calls), net \in Net : fetchSettled(k, net)

CalendarNext ==
  \/ SelectDateStep
  \/ FetchSettledStep

SpecCalendar == CalendarInit /\ [][CalendarNext]_vars

\* C30: once every call of getEventsForDate has ended, the list holds only
\* events of the date selected last, none of them twice, and the
\* placeholder only when it holds no event.
C30_ListIsOfSelectedDate ==
  (calls # <<>> /\ \A k \in 1..Len(calls) : calls[k].next > Len(UserSchedules))
    => /\ \A i \in 1..Len(dayEventsList) :
            dayEventsList[i] = Placeholder
              \/ dayEventsList[i].day = selectedDate
       /\ \A i, j \in 1..Len(dayEventsList) :
            dayEventsList[i] = dayEventsList[j] => i = j
       /\ (\E i \in 1..Len(dayEventsList) : dayEventsList[i] = Placeholder)
            => dayEventsList = <<Placeholder>>

(***************************************************************************)
(* overlaps on all pairs of valid intervals                                *)
(***************************************************************************)
\* The intervals a TimeInterval can be: start < end.
Intervals ==
  {iv \in [start : 0..MaxTime, end : 0..MaxTime] : iv.start < iv.end}

computeOverlaps ==
  /\ ~ovl.done
  /\ ovl' = [done |-> TRUE, ab |-> overlaps(ivA, ivB),
             ba |-> overlaps(ivB, ivA), aa |-> overlaps(ivA, ivA)]
  /\ UNCHANGED <<ivA, ivB, last, localVars, apiVars, pageVars>>

PureInit ==
  /\ ivA \in Intervals
  /\ ivB \in Intervals
  /\ ovl = NotComputed
  /\ last = Idle
  /\ currentUser = NoUser /\ schedules = <<>> /\ events = <<>>
  /\ approvals = <<>> /\ localStorage = ClearedStorage
  /\ section = "login"
  /\ srvEvents = <<>> /\ apiUser = NoApiUser
  /\ PagesIdle

PureNext == computeOverlaps

SpecPure == PureInit /\ [][PureNext]_vars

\* C10: two intervals overlap iff each starts before the other ends; two
\* adjacent intervals (A.end = B.start) do not overlap.
C10_HalfOpenOverlap ==
  ovl.done =>
    /\ ovl.ab <=> (ivA.start < ivB.end /\ ivB.start < ivA.end)
    /\ ivA.end = ivB.start => ~ovl.ab

C10_Witness == ovl.done /\ ivA.end = ivB.start /\ ~ovl.ab

\* C11: overlaps(A, B) = overlaps(B, A) for all valid intervals A and B, and
\* overlaps(A, A) is true for every interval of positive duration.
C11_SymmetricReflexive ==
  ovl.done =>
    /\ ovl.ab <=> ovl.ba
    /\ ivA.start < ivA.end => ovl.aa

\* Two different intervals that overlap, in both orders.
C11_Witness ==
  /\ ovl.done /\ ivA # ivB /\ ivA.start < ivB.start
  /\ ovl.ab /\ ovl.ba /\ ovl.aa

====
